---------------------------- MODULE Spec2Model ----------------------------
(***************************************************************************)
(* Model of the RDWC hydroponics generator add-on (operators.py,           *)
(* mesh_creator.py, properties.py).                                        *)
(*                                                                         *)
(* Lengths are integers in units of 0.01 mm (1e-5 m): 0.6 m is 60000.      *)
(* The scene is the host's object registry (bpy.data.objects) and its      *)
(* collection registry (bpy.data.collections).                             *)
(*                                                                         *)
(* Three specifications share the variables:                               *)
(*   Spec        the add-on as the host drives it: edits of the            *)
(*               configuration record and the Generate operator, execute;  *)
(*   SpecCompose the Boolean Compositor, _apply_boolean, called on a       *)
(*               working set of solids;                                    *)
(*   SpecLayout  the layout methods of the operator called on their own    *)
(*               with the dimensions execute computes for them.            *)
(***************************************************************************)
EXTENDS Integers, Sequences, FiniteSets, TLC

VARIABLES
    cfg,          \* context.scene.hydroponics_props: the configuration record
    objects,      \* bpy.data.objects: the set of live solids
    collections,  \* bpy.data.collections: the set of live collection groups
    pc,           \* position of the operator: idle, inside execute, stopped
    outcome,      \* how the last execute ended: none, FINISHED or the error raised
    runs,         \* number of Generate invocations so far
    prior,        \* scene (objects, collections) at the start of the current invocation
    edited,       \* the configuration was edited since the previous invocation
    sameCfg,      \* the current invocation started with the previous one's configuration
    solids,       \* SpecCompose: working set of solids, id -> [verts, mods]
    call,         \* SpecCompose: the last _apply_boolean call and what happened in it
    built,        \* SpecLayout: what the last method call returned
    method        \* SpecLayout: the method that was called last

vars == <<cfg, objects, collections, pc, outcome, runs, prior, edited, sameCfg,
          solids, call, built, method>>

----------------------------------------------------------------------------
(* Bounds of the model *)

MaxRows == 2
MaxCols == 3
MaxRuns == 3

----------------------------------------------------------------------------
(* properties.py: the configuration record *)

\* HydroponicsLayoutProperties.layout_type: the five values the schema offers
LayoutTypes == {"GRID", "LINEAR", "CIRCULAR", "STAGGERED", "CUSTOM"}

\* the layout types execute has a branch for
RecognisedLayouts == {"GRID", "LINEAR", "CIRCULAR"}

\* get_pipe_sizes: nominal diameters in mm (two of the sizes both standards offer)
PipeSizes == {25, 50}

\* spacing_x: its minimum 0.2 m and its default 0.6 m
SpacingXValues == {20000, 60000}

\* spacing_y: its default 0.6 m
SpacingYValues == {60000}

\* circle_radius: its default 1.5 m
CircleRadiusValues == {150000}

\* pipe_slope in whole degrees: level, and the default of 1 degree
PipeSlopes == {0, 1}

\* pot_props.volume in litres: the default 25 L bucket
PotVolumes == {25}

\* the values each field of the configuration record is drawn from
ConfigValues ==
    [layout_type |-> LayoutTypes,
     rows |-> 1..MaxRows,
     columns |-> 1..MaxCols,
     spacing_x |-> SpacingXValues,
     spacing_y |-> SpacingYValues,
     circle_radius |-> CircleRadiusValues,
     pipe_size |-> PipeSizes,
     pipe_slope |-> PipeSlopes,
     pot_volume |-> PotVolumes,
     use_unions |-> BOOLEAN,
     add_drain_valves |-> BOOLEAN,
     enable_reservoir |-> BOOLEAN]

ConfigFields == DOMAIN ConfigValues

ConfigSpace ==
    [layout_type : ConfigValues.layout_type,
     rows : ConfigValues.rows,
     columns : ConfigValues.columns,
     spacing_x : ConfigValues.spacing_x,
     spacing_y : ConfigValues.spacing_y,
     circle_radius : ConfigValues.circle_radius,
     pipe_size : ConfigValues.pipe_size,
     pipe_slope : ConfigValues.pipe_slope,
     pot_volume : ConfigValues.pot_volume,
     use_unions : ConfigValues.use_unions,
     add_drain_valves : ConfigValues.add_drain_valves,
     enable_reservoir : ConfigValues.enable_reservoir]

\* the defaults of the property schema
DefaultConfig ==
    [layout_type |-> "GRID", rows |-> 2, columns |-> 2,
     spacing_x |-> 60000, spacing_y |-> 60000, circle_radius |-> 150000,
     pipe_size |-> 25, pipe_slope |-> 1, pot_volume |-> 25,
     use_unions |-> FALSE, add_drain_valves |-> TRUE, enable_reservoir |-> TRUE]

----------------------------------------------------------------------------
(* The scene *)

\* the collection the host links a new object to (bpy.context.collection); it is
\* none of the generator's collections
HostCollection == "HOST"

\* _clear_previous: the collections it clears
ClearedCollections ==
    {"Pots", "Pipes", "Fittings", "System", "Lighting", "Components",
     "Pumps", "Aeration", "Sensors", "Valves"}

\* execute: the collections it creates, lines 561-568
SetupCollections ==
    {"Pots", "Pipes", "Fittings", "System", "Pumps", "Sensors", "Aeration", "Valves"}

Origin == <<0, 0, 0>>

RECURSIVE LeastFree(_, _, _)
LeastFree(base, objs, k) ==
    IF \E o \in objs : o.name = [base |-> base, dup |-> k]
    THEN LeastFree(base, objs, k + 1)
    ELSE k

\* the name the host gives a new object: the requested one, or with the suffix
\* .001, .002, ... when it is taken
FreshName(base, objs) == [base |-> base, dup |-> LeastFree(base, objs, 0)]

\* a solid of the scene
Solid(name, kind, coll, born, loc, tip, rot) ==
    [name |-> name, kind |-> kind, coll |-> coll, born |-> born,
     loc |-> loc, tip |-> tip, rot |-> rot]

\* MeshGenerator._create_collection: a new collection, or the existing one
create_collection(colls, collection_name, born) ==
    IF \E c \in colls : c.name = collection_name
    THEN colls
    ELSE colls \cup {[name |-> collection_name, born |-> born]}

\* WM_OT_hydroponics_generator._clear_previous: the objects left
clear_previous_objects(objs, colls) ==
    {o \in objs :
        ~ (o.coll \in ClearedCollections /\ \E c \in colls : c.name = o.coll)}

\* WM_OT_hydroponics_generator._clear_previous: the collections left
clear_previous_collections(colls) ==
    {c \in colls : c.name \notin ClearedCollections}

----------------------------------------------------------------------------
(* mesh_creator.py: the pot factory *)

\* PotMesh.create, lines 67-68: radius = (volume_m3 / (2.5 pi)) ^ (1/3), for the
\* volumes the schema offers, rounded to 0.01 mm
PotRadius(volume_liters) ==
    CASE volume_liters = 0 -> 0
      [] volume_liters = 10 -> 10839
      [] volume_liters = 19 -> 13424
      [] volume_liters = 25 -> 14710
      [] volume_liters = 30 -> 15632

\* PotMesh.create, line 69: height = 2.5 * radius
PotHeight(volume_liters) == (5 * PotRadius(volume_liters)) \div 2

\* PotMesh.create(name, location, volume_liters, add_net_pot). The pot is built,
\* linked to the host's active collection and solidified; the net-pot cutter is
\* then placed at (location.x, location.y, location.z + height/2), which raises
\* AttributeError when location is a plain tuple and not a Vector (line 93).
\* A failure of the boolean solver is swallowed by _apply_boolean and leaves the
\* registry as it is: the cutter is removed either way.
PotMesh_create(objs, name, location, locIsVector, volume_liters, add_net_pot, born) ==
    LET pot == Solid(FreshName(name, objs), "pot", HostCollection, born,
                     location, location, 0)
    IN  [objects |-> objs \cup {pot},
         raised  |-> IF add_net_pot /\ ~ locIsVector THEN "AttributeError" ELSE "none",
         obj     |-> pot,
         height  |-> PotHeight(volume_liters),
         radius  |-> PotRadius(volume_liters)]

----------------------------------------------------------------------------
(* operators.py: the Generate operator as the host drives it *)

Scene(objs, colls) == [objects |-> objs, collections |-> colls]

NoCall == [op |-> "none"]

NoBuilt == [raised |-> "none", pot_objects |-> << >>]

Init ==
    /\ cfg = DefaultConfig
    /\ objects = {}
    /\ collections = {}
    /\ pc = "idle"
    /\ outcome = "none"
    /\ runs = 0
    /\ prior = Scene({}, {})
    /\ edited = FALSE
    /\ sameCfg = FALSE
    /\ solids = << >>
    /\ call = NoCall
    /\ built = NoBuilt
    /\ method = "none"

\* the host edits one field of the configuration record between two invocations
EditConfig ==
    /\ pc \in {"idle", "stopped"}
    /\ \E f \in ConfigFields : \E v \in ConfigValues[f] \ {cfg[f]} :
           cfg' = [cfg EXCEPT ![f] = v]
    /\ pc' = "idle"
    /\ edited' = TRUE
    /\ UNCHANGED <<objects, collections, outcome, runs, prior, sameCfg,
                   solids, call, built, method>>

\* execute, line 541: the operator is invoked and runs _clear_previous
execute_clear ==
    /\ pc \in {"idle", "stopped"}
    /\ runs < MaxRuns
    /\ runs' = runs + 1
    /\ prior' = Scene(objects, collections)
    /\ sameCfg' = (runs > 0 /\ ~ edited)
    /\ edited' = FALSE
    /\ objects' = clear_previous_objects(objects, collections)
    /\ collections' = clear_previous_collections(collections)
    /\ outcome' = "none"
    /\ pc' = "setup"
    /\ UNCHANGED <<cfg, solids, call, built, method>>

RECURSIVE CreateAll(_, _, _)
CreateAll(colls, names, born) ==
    IF names = {} THEN colls
    ELSE LET n == CHOOSE n \in names : TRUE
         IN  CreateAll(create_collection(colls, n, born), names \ {n}, born)

\* execute, lines 546-571: the generators are made and the collections created
execute_setup ==
    /\ pc = "setup"
    /\ collections' = CreateAll(collections, SetupCollections, runs)
    /\ pc' = "dims"
    /\ UNCHANGED <<cfg, objects, outcome, runs, prior, edited, sameCfg,
                   solids, call, built, method>>

\* execute, lines 574-575: the probe pot is created to read back the pot's
\* dimensions: pot_gen.create("temp_pot", (0,0,0), pot_volume), the location a
\* plain tuple and add_net_pot left at its default True. PotMesh.create raises,
\* execute stops there and the host reports the error.
execute_dimensions ==
    /\ pc = "dims"
    /\ LET r == PotMesh_create(objects, <<"temp_pot">>, Origin, FALSE,
                               cfg.pot_volume, TRUE, runs)
       IN  /\ objects' = r.objects
           /\ r.raised # "none"
           /\ outcome' = r.raised
    /\ pc' = "stopped"
    /\ UNCHANGED <<cfg, collections, runs, prior, edited, sameCfg,
                   solids, call, built, method>>

Next == EditConfig \/ execute_clear \/ execute_setup \/ execute_dimensions

Spec == Init /\ [][Next]_vars

----------------------------------------------------------------------------
(* Claims about the Generate operator, checked under Spec *)

\* the named components of a scene: name, collection and position of every solid
Components(objs) == {[name |-> o.name, coll |-> o.coll, loc |-> o.loc] : o \in objs}

\* C3: on every Generate invocation, once the first new Solid of the invocation
\* exists, no Solid and no CollectionGroup of a prior invocation is left,
\* however the prior invocation ended
C3_PriorRunDestroyed ==
    (\E o \in objects : o.born = runs) =>
        /\ \A o \in objects : o.born = runs
        /\ \A c \in collections : c.born = runs

\* C4: a second Generate with the configuration of the first, and nothing done
\* in between, leaves exactly the named components, collections and positions
\* the first one left
C4_Idempotent ==
    (pc = "stopped" /\ sameCfg) => Components(objects) = Components(prior.objects)

\* C5: a run whose layout_type is none of GRID, LINEAR, CIRCULAR aborts before
\* any mesh is created and leaves the Solids and CollectionGroups of the prior
\* run untouched
C5_UnrecognisedLayoutAborts ==
    (pc = "stopped" /\ cfg.layout_type \notin RecognisedLayouts) =>
        /\ outcome # "FINISHED"
        /\ objects = prior.objects
        /\ collections = prior.collections

\* C6: with a recognised layout type and any combination of the toggles, a
\* Generate invocation runs to its end and returns FINISHED
C6_RunsToEnd ==
    (pc = "stopped" /\ cfg.layout_type \in RecognisedLayouts) => outcome = "FINISHED"

\* C21: cutters and probes are released as soon as they are used, so the
\* number of live object blocks after a regeneration with the same configuration
\* equals the number after the run before it: no growth across regenerations
C21_NoGrowthAcrossRuns ==
    (pc = "stopped" /\ sameCfg) =>
        Cardinality(objects) = Cardinality(prior.objects)

----------------------------------------------------------------------------
(* mesh_creator.py: the Boolean Compositor, called on a working set of solids *)

\* the working set holds at most this many solids at a time
MaxSolids == 2

\* a solid is not composed further once it has this many vertices
MaxVerts == 256

\* the segment counts the factories pass to _create_and_transform_cylinder
CylinderSegments == {48, 64}

\* the two operations of the compositor
Operations == {"UNION", "DIFFERENCE"}

Front(seq) == SubSeq(seq, 1, Len(seq) - 1)

Without(ws, id) == [i \in DOMAIN ws \ {id} |-> ws[i]]

\* the vertex counts the host's solver may leave in base when it succeeds
SolverResults(ws, base_obj, cutter_obj) ==
    {ws[base_obj].verts, ws[base_obj].verts + ws[cutter_obj].verts}

\* _apply_boolean without its try/except: a solver failure leaves the modifier
\* pending, skips the removal of the cutter and reaches the caller
apply_boolean_uncaught(ws, base_obj, cutter_obj, operation, keep_cutter, fails, result) ==
    LET pending == [ws EXCEPT ![base_obj].mods = Append(@, "Boolean")]
        applied == [pending EXCEPT ![base_obj].verts = result,
                                   ![base_obj].mods = Front(@)]
    IN  IF fails
        THEN [solids |-> pending, raised |-> TRUE]
        ELSE [solids |-> IF keep_cutter THEN applied ELSE Without(applied, cutter_obj),
              raised |-> FALSE]

\* _apply_boolean with the test of keep_cutter inverted
apply_boolean_keeps(ws, base_obj, cutter_obj, operation, keep_cutter, fails, result) ==
    LET pending == [ws EXCEPT ![base_obj].mods = Append(@, "Boolean")]
        applied == IF fails
                   THEN [pending EXCEPT ![base_obj].mods = Front(@)]
                   ELSE [pending EXCEPT ![base_obj].verts = result,
                                        ![base_obj].mods = Front(@)]
    IN  [solids |-> IF keep_cutter THEN Without(applied, cutter_obj) ELSE applied,
         raised |-> FALSE]

\* _apply_boolean(base_obj, cutter_obj, operation, keep_cutter): a Boolean
\* modifier is added to base and applied; when the host raises RuntimeError the
\* modifier is removed again (lines 19-21); the cutter is removed from the
\* registry unless keep_cutter (lines 23-24). fails and result are the solver's
\* answer.
apply_boolean(ws, base_obj, cutter_obj, operation, keep_cutter, fails, result) ==
    LET pending == [ws EXCEPT ![base_obj].mods = Append(@, "Boolean")]
        applied == IF fails
                   THEN [pending EXCEPT ![base_obj].mods = Front(@)]
                   ELSE [pending EXCEPT ![base_obj].verts = result,
                                        ![base_obj].mods = Front(@)]
    IN  [solids |-> IF keep_cutter THEN applied ELSE Without(applied, cutter_obj),
         raised |-> FALSE]

InitCompose ==
    /\ cfg = DefaultConfig
    /\ objects = {}
    /\ collections = {}
    /\ pc = "idle"
    /\ outcome = "none"
    /\ runs = 0
    /\ prior = Scene({}, {})
    /\ edited = FALSE
    /\ sameCfg = FALSE
    /\ solids = << >>
    /\ call = NoCall
    /\ built = NoBuilt
    /\ method = "none"

\* _create_and_transform_cylinder: a new cylinder of 2 * vertices vertices joins
\* the working set
create_and_transform_cylinder ==
    /\ Cardinality(DOMAIN solids) < MaxSolids
    /\ \E vertices \in CylinderSegments :
         LET id == CHOOSE i \in 1..MaxSolids : i \notin DOMAIN solids
         IN  solids' = [i \in DOMAIN solids \cup {id} |->
                          IF i = id THEN [verts |-> 2 * vertices, mods |-> << >>]
                          ELSE solids[i]]
    /\ call' = NoCall
    /\ UNCHANGED <<cfg, objects, collections, pc, outcome, runs, prior, edited,
                   sameCfg, built, method>>

\* AirPumpMesh.create, lines 1046-1048: a bevel modifier is added to a solid and
\* left pending while booleans are applied to it
modifier_add ==
    /\ \E id \in DOMAIN solids :
         /\ solids[id].mods = << >>
         /\ solids' = [solids EXCEPT ![id].mods = <<"Bevel">>]
    /\ call' = NoCall
    /\ UNCHANGED <<cfg, objects, collections, pc, outcome, runs, prior, edited,
                   sameCfg, built, method>>

\* one call of _apply_boolean on two solids of the working set
compose ==
    /\ \E base_obj \in DOMAIN solids, cutter_obj \in DOMAIN solids :
       \E operation \in Operations, keep_cutter \in BOOLEAN, fails \in BOOLEAN :
       \E result \in SolverResults(solids, base_obj, cutter_obj) :
         /\ base_obj # cutter_obj
         /\ result <= MaxVerts
         /\ LET r == apply_boolean(solids, base_obj, cutter_obj, operation,
                                   keep_cutter, fails, result)
            IN  /\ solids' = r.solids
                /\ call' = [op |-> operation, base |-> base_obj, cutter |-> cutter_obj,
                            keep |-> keep_cutter, failed |-> fails,
                            before |-> solids[base_obj], raised |-> r.raised]
    /\ UNCHANGED <<cfg, objects, collections, pc, outcome, runs, prior, edited,
                   sameCfg, built, method>>

NextCompose == create_and_transform_cylinder \/ modifier_add \/ compose

SpecCompose == InitCompose /\ [][NextCompose]_vars

\* C1: when the solver fails during compose, the base is afterwards exactly as
\* it was before the call (same vertex count, no pending boolean modifier left),
\* the cutter has been removed unless keep_cutter was set, and nothing is raised
\* to the caller
C1_FailureLeavesBase ==
    (call.op # "none" /\ call.failed) =>
        /\ call.base \in DOMAIN solids
        /\ solids[call.base] = call.before
        /\ (~ call.keep => call.cutter \notin DOMAIN solids)
        /\ ~ call.raised

\* a failed DIFFERENCE on a base that has a bevel pending, the cutter consumed
C1_Witness ==
    /\ call.op = "DIFFERENCE"
    /\ call.failed
    /\ ~ call.keep
    /\ call.before.mods = <<"Bevel">>
    /\ call.cutter \notin DOMAIN solids

\* C2: after every compose call, UNION or DIFFERENCE, failed or not, the base
\* still exists, and the cutter exists exactly when keep_cutter was set
C2_CutterOwnership ==
    (call.op # "none") =>
        /\ call.base \in DOMAIN solids
        /\ (call.keep <=> call.cutter \in DOMAIN solids)

\* a successful UNION that changed the base and kept its cutter
C2_Witness ==
    /\ call.op = "UNION"
    /\ call.keep
    /\ ~ call.failed
    /\ call.cutter \in DOMAIN solids
    /\ solids[call.base].verts > call.before.verts

----------------------------------------------------------------------------
(* Positions, and the factories the layout methods call *)

\* a point: (x, y, z) plus r along the direction at k/n of a turn about Z, that
\* is (x + r cos(2 pi k/n), y + r sin(2 pi k/n), z)
Point(x, y, z) == [x |-> x, y |-> y, z |-> z, r |-> 0, k |-> 0, n |-> 1]

Polar(r, k, n, z) == [x |-> 0, y |-> 0, z |-> z, r |-> r, k |-> k, n |-> n]

\* an Euler rotation: rx and ry in degrees, rz as k/n of a turn
Euler(rx, ry, k, n) == <<rx, ry, k, n>>

NoRotation == Euler(0, 0, 0, 1)

Abs(i) == IF i < 0 THEN 0 - i ELSE i

\* no two end points are too close
TooShort_never(start_loc, end_loc) == FALSE

\* PipeMesh.create, lines 206-209: the two end points are less than 0.0001 m,
\* that is 10 units, apart. Two points off the Z axis in different directions
\* are further apart than that for every radius and pot count of the model.
TooShort(start_loc, end_loc) ==
    IF start_loc.r # 0 \/ end_loc.r # 0
    THEN /\ \/ start_loc.r = 0
            \/ end_loc.r = 0
            \/ start_loc.k * end_loc.n = end_loc.k * start_loc.n
         /\ start_loc.x = end_loc.x /\ start_loc.y = end_loc.y
         /\ Abs(end_loc.z - start_loc.z) < 10
         /\ Abs(end_loc.r - start_loc.r) < 10
         /\ (end_loc.z - start_loc.z) * (end_loc.z - start_loc.z)
              + (end_loc.r - start_loc.r) * (end_loc.r - start_loc.r) < 100
    ELSE LET dx == end_loc.x - start_loc.x
             dy == end_loc.y - start_loc.y
             dz == end_loc.z - start_loc.z
         IN  /\ Abs(dx) < 10 /\ Abs(dy) < 10 /\ Abs(dz) < 10
             /\ dx * dx + dy * dy + dz * dz < 100

\* what a factory hands back before the host has named it: name is the name
\* asked for, coll the collection the caller links it to
Part(name, kind, coll, loc, tip, rot) ==
    [name |-> name, kind |-> kind, coll |-> coll, loc |-> loc, tip |-> tip,
     rot |-> rot, outlets |-> 0]

\* PipeMesh.create(name, start_loc, end_loc): None when the end points are too
\* close, else a cylinder from start_loc to end_loc; the caller links it to the
\* Pipes collection
PipeMesh_create(name, start_loc, end_loc) ==
    IF TooShort(start_loc, end_loc)
    THEN << >>
    ELSE << Part(name, "pipe", "Pipes", start_loc, end_loc, NoRotation) >>

\* FittingMesh.get_diameter: pipe_size is in mm
get_diameter(c) == c.pipe_size * 100

\* HydroponicsPipeProperties.pipe_height_ratio: its default, in percent
PipeHeightRatio == 15

\* tan(radians(pipe_slope)) in units of 1e-5
TanSlope(pipe_slope) == CASE pipe_slope = 0 -> 0 [] pipe_slope = 1 -> 1746

\* a pipe height that takes no account of the slope
calculate_pipe_height_level(base_height, c, distance_from_center) ==
    (base_height * PipeHeightRatio) \div 100

\* WM_OT_hydroponics_generator._calculate_pipe_height
calculate_pipe_height(base_height, c, distance_from_center) ==
    (base_height * PipeHeightRatio) \div 100
      + (IF c.pipe_slope # 0
         THEN (distance_from_center * TanSlope(c.pipe_slope)) \div 100000
         ELSE 0)

\* dimensions in which the pipes are not inserted into the sockets
Dimensions_noinsertion(c) ==
    [pot_volume |-> c.pot_volume,
     pot_height |-> PotHeight(c.pot_volume),
     pot_radius |-> PotRadius(c.pot_volume),
     pipe_z |-> (PotHeight(c.pot_volume) * 15) \div 100,
     tee_arm_total_length |-> (get_diameter(c) * 8) \div 10 + (get_diameter(c) * 6) \div 10,
     pipe_insertion_depth |-> 0,
     manifold_y_in |-> (c.rows - 1) * c.spacing_y + (c.spacing_y * 8) \div 10,
     manifold_y_out |-> 0 - (c.spacing_y * 8) \div 10]

\* execute, lines 574-587: the dimensions handed to the layout methods
Dimensions(c) ==
    [pot_volume |-> c.pot_volume,
     pot_height |-> PotHeight(c.pot_volume),
     pot_radius |-> PotRadius(c.pot_volume),
     pipe_z |-> (PotHeight(c.pot_volume) * 15) \div 100,
     tee_arm_total_length |-> (get_diameter(c) * 8) \div 10 + (get_diameter(c) * 6) \div 10,
     pipe_insertion_depth |-> (((get_diameter(c) * 6) \div 10) * 4) \div 10,
     manifold_y_in |-> (c.rows - 1) * c.spacing_y + (c.spacing_y * 8) \div 10,
     manifold_y_out |-> 0 - (c.spacing_y * 8) \div 10]

----------------------------------------------------------------------------
(* operators.py: _generate_grid_manifold *)

\* lines 96, 107, 157: the pipe height of column c
ColumnPipeZ(c, layout, dimensions) ==
    calculate_pipe_height(dimensions.pot_height, layout,
        c * layout.spacing_x - ((layout.columns - 1) * layout.spacing_x) \div 2)

\* a segment that is one continuous pipe per line whatever use_unions says
SegmentParts_continuous(c, layout, dimensions, pipe_start_x, pipe_end_x) ==
    PipeMesh_create(<<"Manifold_Pipe_In", c - 1>>,
        Point(pipe_start_x, dimensions.manifold_y_in,
              ColumnPipeZ(c - 1, layout, dimensions)),
        Point(pipe_end_x, dimensions.manifold_y_in,
              ColumnPipeZ(c, layout, dimensions)))
    \o PipeMesh_create(<<"Manifold_Pipe_Out", c - 1>>,
        Point(pipe_start_x, dimensions.manifold_y_out,
              ColumnPipeZ(c - 1, layout, dimensions)),
        Point(pipe_end_x, dimensions.manifold_y_out,
              ColumnPipeZ(c, layout, dimensions)))

\* lines 112-151: the pipes, and with use_unions the unions, of the segment
\* between columns c-1 and c on both lines, in the order they are created
SegmentParts(c, layout, dimensions, pipe_start_x, pipe_end_x) ==
    LET prev_pipe_z == ColumnPipeZ(c - 1, layout, dimensions)
        pipe_z == ColumnPipeZ(c, layout, dimensions)
        mid_x == (pipe_start_x + pipe_end_x) \div 2
        mid_z == (prev_pipe_z + pipe_z) \div 2
        y_in == dimensions.manifold_y_in
        y_out == dimensions.manifold_y_out
    IN  IF layout.use_unions
        THEN << Part(<<"Union_In", c - 1>>, "union", "Fittings",
                     Point(mid_x, y_in, mid_z), Point(mid_x, y_in, mid_z),
                     Euler(0, 90, 0, 1)) >>
             \o PipeMesh_create(<<"Manifold_Pipe_In", c - 1, 1>>,
                     Point(pipe_start_x, y_in, prev_pipe_z),
                     Point(mid_x - 2000, y_in, mid_z))
             \o PipeMesh_create(<<"Manifold_Pipe_In", c - 1, 2>>,
                     Point(mid_x + 2000, y_in, mid_z),
                     Point(pipe_end_x, y_in, pipe_z))
             \o << Part(<<"Union_Out", c - 1>>, "union", "Fittings",
                     Point(mid_x, y_out, mid_z), Point(mid_x, y_out, mid_z),
                     Euler(0, 90, 0, 1)) >>
             \o PipeMesh_create(<<"Manifold_Pipe_Out", c - 1, 1>>,
                     Point(pipe_start_x, y_out, prev_pipe_z),
                     Point(mid_x - 2000, y_out, mid_z))
             \o PipeMesh_create(<<"Manifold_Pipe_Out", c - 1, 2>>,
                     Point(mid_x + 2000, y_out, mid_z),
                     Point(pipe_end_x, y_out, pipe_z))
        ELSE PipeMesh_create(<<"Manifold_Pipe_In", c - 1>>,
                     Point(pipe_start_x, y_in, prev_pipe_z),
                     Point(pipe_end_x, y_in, pipe_z))
             \o PipeMesh_create(<<"Manifold_Pipe_Out", c - 1>>,
                     Point(pipe_start_x, y_out, prev_pipe_z),
                     Point(pipe_end_x, y_out, pipe_z))

\* a segment whose pipes stop at the open faces of the tees' sockets
ManifoldSegment_flush(c, layout, dimensions) ==
    SegmentParts(c, layout, dimensions,
        (c - 1) * layout.spacing_x + dimensions.tee_arm_total_length,
        c * layout.spacing_x - dimensions.tee_arm_total_length)

\* lines 105-110: the segment between the tees of columns c-1 and c; its pipes
\* start and end pipe_insertion_depth inside the tees' sockets
ManifoldSegment(c, layout, dimensions) ==
    SegmentParts(c, layout, dimensions,
        (c - 1) * layout.spacing_x + dimensions.tee_arm_total_length
            - dimensions.pipe_insertion_depth,
        c * layout.spacing_x - dimensions.tee_arm_total_length
            + dimensions.pipe_insertion_depth)

\* the tees of column c, left where the factory made them
ColumnTees_unlinked(c, layout, dimensions) ==
    LET loc_x == c * layout.spacing_x
        pipe_z == ColumnPipeZ(c, layout, dimensions)
    IN  << Part(<<"Tee_Inlet", c>>, "tee", HostCollection,
                Point(loc_x, dimensions.manifold_y_in, pipe_z),
                Point(loc_x, dimensions.manifold_y_in, pipe_z),
                Euler(0, 0, 1, 2)),
           Part(<<"Tee_Outlet", c>>, "tee", HostCollection,
                Point(loc_x, dimensions.manifold_y_out, pipe_z),
                Point(loc_x, dimensions.manifold_y_out, pipe_z),
                NoRotation) >>

\* lines 95-102: the inlet tee of column c, rotated by 180 degrees about Z, and
\* its outlet tee
ColumnTees(c, layout, dimensions) ==
    LET loc_x == c * layout.spacing_x
        pipe_z == ColumnPipeZ(c, layout, dimensions)
    IN  << Part(<<"Tee_Inlet", c>>, "tee", "Fittings",
                Point(loc_x, dimensions.manifold_y_in, pipe_z),
                Point(loc_x, dimensions.manifold_y_in, pipe_z),
                Euler(0, 0, 1, 2)),
           Part(<<"Tee_Outlet", c>>, "tee", "Fittings",
                Point(loc_x, dimensions.manifold_y_out, pipe_z),
                Point(loc_x, dimensions.manifold_y_out, pipe_z),
                NoRotation) >>

\* a column whose tees are left unjoined to the previous column's
ColumnParts_unjoined(c, layout, dimensions) ==
    ColumnTees(c, layout, dimensions)

\* lines 94-151, one turn of the loop: the tees of column c, then the segment
\* joining them to the previous column's
ColumnParts(c, layout, dimensions) ==
    ColumnTees(c, layout, dimensions)
    \o (IF c > 0 THEN ManifoldSegment(c, layout, dimensions) ELSE << >>)

\* lines 94-151: the loop over the columns
RECURSIVE ManifoldParts(_, _, _)
ManifoldParts(c, layout, dimensions) ==
    IF c >= layout.columns THEN << >>
    ELSE ColumnParts(c, layout, dimensions)
         \o ManifoldParts(c + 1, layout, dimensions)

\* lines 156-197: the pot of cell (r, c), its inlet run, through a drain valve
\* when add_drain_valves is set, and its outlet run. The valve is linked to
\* what line 88 calls valves_collection, the fourth of the collections execute
\* passes, which is the System collection
CellParts(r, c, layout, dimensions) ==
    LET loc_x == c * layout.spacing_x
        loc_y == r * layout.spacing_y
        pipe_z == ColumnPipeZ(c, layout, dimensions)
        pot_rad_actual == PotRadius(dimensions.pot_volume)
        socket_y == dimensions.manifold_y_in - dimensions.tee_arm_total_length
                        + dimensions.pipe_insertion_depth
        pot == Part(<<"Pot", r, c>>, "pot", "Pots",
                    Point(loc_x, loc_y, dimensions.pot_height \div 2),
                    Point(loc_x, loc_y, dimensions.pot_height \div 2), NoRotation)
    IN  << pot >>
        \o (IF layout.add_drain_valves
            THEN << Part(<<"Valve_In", r, c>>, "valve", "System",
                         Point(loc_x, socket_y - 5000, pipe_z),
                         Point(loc_x, socket_y - 5000, pipe_z), NoRotation) >>
                 \o PipeMesh_create(<<"Pipe_to_valve_in", r, c>>,
                         Point(loc_x, socket_y, pipe_z),
                         Point(loc_x, socket_y - 5000 - 4000, pipe_z))
                 \o PipeMesh_create(<<"Pipe_from_valve_in", r, c>>,
                         Point(loc_x, socket_y - 5000 + 4000, pipe_z),
                         Point(loc_x, loc_y + pot_rad_actual, pipe_z))
            ELSE PipeMesh_create(<<"Pot_Pipe_In", r, c>>,
                         Point(loc_x, socket_y, pipe_z),
                         Point(loc_x, loc_y + pot_rad_actual, pipe_z)))
        \o PipeMesh_create(<<"Pot_Pipe_Out", r, c>>,
                Point(loc_x, loc_y - pot_rad_actual, pipe_z),
                Point(loc_x, dimensions.manifold_y_out + dimensions.tee_arm_total_length
                                 - dimensions.pipe_insertion_depth, pipe_z))

\* the sequences seqs[lo], ..., seqs[hi] one after the other
RECURSIVE Flatten(_, _, _)
Flatten(seqs, lo, hi) ==
    IF lo > hi THEN << >>
    ELSE IF lo = hi THEN seqs[lo]
    ELSE Flatten(seqs, lo, (lo + hi) \div 2)
         \o Flatten(seqs, (lo + hi) \div 2 + 1, hi)

\* lines 154-155: the cells from cell j on, in the order of the two loops,
\* j = r * columns + c
PotParts(j, layout, dimensions) ==
    Flatten([i \in (j + 1)..(layout.rows * layout.columns) |->
                CellParts((i - 1) \div layout.columns, (i - 1) % layout.columns,
                          layout, dimensions)],
            j + 1, layout.rows * layout.columns)

\* line 167: the pot_objects entry of cell j
PotObject(j, layout, dimensions) ==
    [name |-> <<"Pot", j \div layout.columns, j % layout.columns>>,
     x |-> (j % layout.columns) * layout.spacing_x,
     y |-> (j \div layout.columns) * layout.spacing_y,
     height |-> dimensions.pot_height,
     radius |-> PotRadius(dimensions.pot_volume)]

\* _generate_grid_manifold(context, generators, collections, dimensions): the
\* parts it creates, in order, and the pot_objects list it returns
generate_grid_manifold(layout, dimensions) ==
    [parts |-> ManifoldParts(0, layout, dimensions) \o PotParts(0, layout, dimensions),
     pot_objects |-> [j \in 1..(layout.rows * layout.columns) |->
                         PotObject(j - 1, layout, dimensions)]]

----------------------------------------------------------------------------
(* operators.py: _calculate_pot_positions and _generate_circular_layout *)

\* pot positions on the circle counted by the columns alone
calculate_pot_positions_bycolumns(layout) ==
    IF layout.layout_type = "CIRCULAR"
    THEN [j \in 1..layout.columns |->
             Polar(layout.circle_radius, j - 1, layout.columns, 0)]
    ELSE << >>

\* _calculate_pot_positions(layout): GRID row by row, LINEAR along X, CIRCULAR
\* position i at angle i * (2 pi / num_pots) on the circle of circle_radius,
\* and no position for any other layout type
calculate_pot_positions(layout) ==
    CASE layout.layout_type = "GRID" ->
            [j \in 1..(layout.rows * layout.columns) |->
                Point(((j - 1) % layout.columns) * layout.spacing_x,
                      ((j - 1) \div layout.columns) * layout.spacing_y, 0)]
      [] layout.layout_type = "LINEAR" ->
            [j \in 1..layout.columns |-> Point((j - 1) * layout.spacing_x, 0, 0)]
      [] layout.layout_type = "CIRCULAR" ->
            [j \in 1..(layout.rows * layout.columns) |->
                Polar(layout.circle_radius, j - 1, layout.rows * layout.columns, 0)]
      [] OTHER -> << >>

\* an angle that is always 0
atan2_zero(pos) == <<0, 1>>

\* math.atan2(pos.y, pos.x) for a position on a circle about the Z axis, as
\* <<k, n>> for k/n of a turn: the angle lies in (-pi, pi]
atan2(pos) == <<IF 2 * pos.k > pos.n THEN pos.k - pos.n ELSE pos.k, pos.n>>

\* the angles a and the direction of pos are the same up to whole turns
SameDirection(a, pos) == (a[1] * pos.n - pos.k * a[2]) % (a[2] * pos.n) = 0

\* pos + Vector((cos(a) * len, sin(a) * len, dz)), line 239
Offset(pos, a, len, dz) ==
    CASE SameDirection(a, pos) -> [pos EXCEPT !.r = @ + len, !.z = @ + dz]
      [] ~ SameDirection(a, pos) /\ a[1] = 0 -> [pos EXCEPT !.x = @ + len, !.z = @ + dz]

\* ManifoldBlockMesh.create(name, location, num_outlets): one block; each of the
\* num_outlets turns of its loop cuts an outlet hole and fuses an outlet socket
ManifoldBlockMesh_create(name, location, num_outlets) ==
    [Part(name, "manifold", "Fittings", location, location, NoRotation)
        EXCEPT !.outlets = num_outlets]

\* lines 224-249, one turn of the loop: pot i, its elbow and its radial pipe
RadialParts(i, pos, layout, dimensions) ==
    LET pipe_z == calculate_pipe_height(dimensions.pot_height, layout, 0)
        pot_rad_actual == PotRadius(dimensions.pot_volume)
        angle == atan2(pos)
        elbow_pos == Offset(pos, angle, pot_rad_actual, pipe_z)
    IN  << Part(<<"Pot_circular", i>>, "pot", "Pots",
                [pos EXCEPT !.z = @ + dimensions.pot_height \div 2],
                [pos EXCEPT !.z = @ + dimensions.pot_height \div 2], NoRotation),
           Part(<<"Elbow_circular", i>>, "elbow", "Fittings", elbow_pos, elbow_pos,
                Euler(0, 0, angle[1], angle[2])) >>
        \o PipeMesh_create(<<"Pipe_radial", i>>, Point(0, 0, pipe_z), elbow_pos)

\* lines 224-249: the loop over the positions, from position j on
CircularParts(j, positions, layout, dimensions) ==
    Flatten([i \in j..Len(positions) |->
                RadialParts(i - 1, positions[i], layout, dimensions)],
            j, Len(positions))

\* _generate_circular_layout(context, generators, collections, dimensions)
generate_circular_layout(layout, dimensions) ==
    LET positions == calculate_pot_positions(layout)
        pipe_z == calculate_pipe_height(dimensions.pot_height, layout, 0)
    IN  [parts |-> << ManifoldBlockMesh_create(<<"Central_Manifold">>,
                          Point(0, 0, pipe_z), Len(positions)) >>
                   \o CircularParts(1, positions, layout, dimensions),
         pot_objects |-> [j \in 1..Len(positions) |->
                            [name |-> <<"Pot_circular", j - 1>>,
                             pos |-> positions[j],
                             height |-> dimensions.pot_height,
                             radius |-> PotRadius(dimensions.pot_volume)]]]

----------------------------------------------------------------------------
(* The layout methods called on their own, lines 589-600 of execute *)

\* the host names each part in the order the method creates it, and the method
\* links it to its collection
RECURSIVE Register(_, _, _)
Register(objs, parts, born) ==
    IF parts = << >> THEN objs
    ELSE LET p == Head(parts)
             o == Solid(FreshName(p.name, objs), p.kind, p.coll, born,
                        p.loc, p.tip, p.rot) @@ [outlets |-> p.outlets]
         IN  Register(objs \cup {o}, Tail(parts), born)

\* end points handed to PipeMesh.create on its own
ProbePoints ==
    {Point(0, 0, 0), Point(5, 0, 0), Point(6, 8, 0), Point(0, 0, 9),
     Point(2200, 0, 0)}

InitLayout ==
    /\ cfg \in ConfigSpace
    /\ objects = {}
    /\ collections = CreateAll({}, SetupCollections, 1)
    /\ pc = "layout"
    /\ outcome = "none"
    /\ runs = 1
    /\ prior = Scene({}, {})
    /\ edited = FALSE
    /\ sameCfg = FALSE
    /\ solids = << >>
    /\ call = NoCall
    /\ built = NoBuilt
    /\ method = "none"

\* lines 592-593
generate_grid ==
    /\ method = "none"
    /\ cfg.layout_type = "GRID"
    /\ LET b == generate_grid_manifold(cfg, Dimensions(cfg))
       IN  /\ objects' = Register(objects, b.parts, runs)
           /\ built' = [raised |-> "none", pot_objects |-> b.pot_objects]
    /\ method' = "grid"
    /\ UNCHANGED <<cfg, collections, pc, outcome, runs, prior, edited, sameCfg,
                   solids, call>>

\* lines 594-595
generate_circular ==
    /\ method = "none"
    /\ cfg.layout_type = "CIRCULAR"
    /\ LET b == generate_circular_layout(cfg, Dimensions(cfg))
       IN  /\ objects' = Register(objects, b.parts, runs)
           /\ built' = [raised |-> "none", pot_objects |-> b.pot_objects]
    /\ method' = "circular"
    /\ UNCHANGED <<cfg, collections, pc, outcome, runs, prior, edited, sameCfg,
                   solids, call>>

\* what exists when the host raises RuntimeError from the unguarded
\* bpy.ops.object.modifier_apply of PotMesh.create (mesh_creator.py line 84) for
\* the first pot: the manifold of lines 94-151 and the pot, still in the host's
\* active collection
grid_manifold_interrupted(layout, dimensions) ==
    ManifoldParts(0, layout, dimensions)
    \o << Part(<<"Pot", 0, 0>>, "pot", HostCollection,
               Point(0, 0, dimensions.pot_height \div 2),
               Point(0, 0, dimensions.pot_height \div 2), NoRotation) >>

\* lines 596-601: the grid method with rows set to 1 for the call, the
\* dimensions being those computed from the configured rows; rows is set back
\* by the statement after the call (line 600), which an exception raised in the
\* call skips. host_raises is whether the host raises inside the call.
generate_linear ==
    /\ method = "none"
    /\ cfg.layout_type = "LINEAR"
    /\ \E host_raises \in BOOLEAN :
         IF host_raises
         THEN /\ objects' = Register(objects,
                                grid_manifold_interrupted([cfg EXCEPT !.rows = 1],
                                                          Dimensions(cfg)), runs)
              /\ built' = [raised |-> "RuntimeError", pot_objects |-> << >>]
              /\ cfg' = [cfg EXCEPT !.rows = 1]
              /\ method' = "raised"
         ELSE LET b == generate_grid_manifold([cfg EXCEPT !.rows = 1], Dimensions(cfg))
              IN  /\ objects' = Register(objects, b.parts, runs)
                  /\ built' = [raised |-> "none", pot_objects |-> b.pot_objects]
                  /\ cfg' = cfg
                  /\ method' = "linear"
    /\ call' = [op |-> "execute", layout |-> cfg]
    /\ UNCHANGED <<collections, pc, outcome, runs, prior, edited, sameCfg, solids>>

\* lines 591-601: no branch for any other layout type
generate_none ==
    /\ method = "none"
    /\ cfg.layout_type \notin RecognisedLayouts
    /\ built' = [raised |-> "none", pot_objects |-> << >>]
    /\ method' = "skipped"
    /\ UNCHANGED <<cfg, objects, collections, pc, outcome, runs, prior, edited,
                   sameCfg, solids, call>>

\* PipeMesh.create called between two points
pipe_create ==
    /\ method = "none"
    /\ \E start_loc \in ProbePoints : \E end_loc \in ProbePoints :
         LET returned == PipeMesh_create(<<"Pipe">>, start_loc, end_loc)
         IN  /\ objects' = Register(objects, returned, runs)
             /\ call' = [op |-> "PipeMesh.create", start_loc |-> start_loc,
                         end_loc |-> end_loc, returned |-> returned]
    /\ method' = "pipe"
    /\ UNCHANGED <<cfg, collections, pc, outcome, runs, prior, edited, sameCfg,
                   solids, built>>

\* volumes handed to PotMesh.create on its own: the schema's, and none at all
ProbeVolumes == {0, 10, 25}

\* PotMesh.create called with a volume, at a Vector location
pot_create ==
    /\ method = "none"
    /\ \E volume_liters \in ProbeVolumes :
         LET r == PotMesh_create(objects, <<"Pot">>, Point(0, 0, 0), TRUE,
                                 volume_liters, TRUE, runs)
         IN  /\ objects' = r.objects
             /\ call' = [op |-> "PotMesh.create", volume_liters |-> volume_liters,
                         raised |-> r.raised, height |-> r.height,
                         radius |-> r.radius]
    /\ method' = "pot"
    /\ UNCHANGED <<cfg, collections, pc, outcome, runs, prior, edited, sameCfg,
                   solids, built>>

VesselClasses == {"pot", "reservoir", "balance_tank"}

\* the volumes the operator hands to each factory, in tenths of a litre: the
\* schema's pot and reservoir volumes, and 1.5 times the pot's for the balance
\* tank (operators.py line 391)
VesselVolumes(class) ==
    CASE class = "pot" -> {100, 190, 250, 300}
      [] class = "reservoir" -> {500, 750, 1000, 1500, 2000}
      [] class = "balance_tank" -> {150, 285, 375, 450}

\* a reservoir as tall as 1.5 times its radius
VesselShape_byradius(class) ==
    CASE class = "pot" -> [k |-> <<25, 10>>, h |-> <<25, 10>>]
      [] class = "reservoir" -> [k |-> <<3, 1>>, h |-> <<15, 10>>]
      [] class = "balance_tank" -> [k |-> <<15, 10>>, h |-> <<75 * 2, 100>>]

\* the two constants of each factory, as fractions: radius is the cube root of
\* volume / (k pi) and height is h times radius.
\* PotMesh.create: k = 2.5, h = 2.5; ReservoirMesh.create: k = 3,
\* h = 1.5 * 2; BalanceTankMesh.create: k = 1.5, h = 0.75 * 2
VesselShape(class) ==
    CASE class = "pot" -> [k |-> <<25, 10>>, h |-> <<25, 10>>]
      [] class = "reservoir" -> [k |-> <<3, 1>>, h |-> <<15 * 2, 10>>]
      [] class = "balance_tank" -> [k |-> <<15, 10>>, h |-> <<75 * 2, 100>>]

\* what a vessel factory derives from a volume: pi * radius^3 = volume / k, as
\* a fraction, and height / radius = h
VesselDims(class, volume) ==
    [pi_radius3 |-> <<volume * VesselShape(class).k[2], VesselShape(class).k[1]>>,
     height_by_radius |-> VesselShape(class).h]

\* a vessel factory called with a volume: the dimensions it returns
vessel_create ==
    /\ method = "none"
    /\ \E class \in VesselClasses : \E volume \in VesselVolumes(class) :
         call' = [op |-> "Vessel.create", class |-> class, volume |-> volume,
                  dims |-> VesselDims(class, volume)]
    /\ method' = "vessel"
    /\ UNCHANGED <<cfg, objects, collections, pc, outcome, runs, prior, edited,
                   sameCfg, solids, built>>

PipeStandards == {"TR", "METRIC", "IMPERIAL"}

\* get_pipe_sizes: the nominal sizes of a standard, in mm
get_pipe_sizes(pipe_standard) ==
    IF pipe_standard = "TR" THEN {20, 25, 32, 50} ELSE {15, 20, 25, 40, 50}

\* the fitting kinds whose create derives sockets and a hollow
SocketFittings == {"tee", "elbow", "union"}

\* a fitting without a wall
get_wall_thickness_none(c) == 0

\* FittingMesh.get_wall_thickness: 0.15 of the diameter
get_wall_thickness(c) == (get_diameter(c) * 15) \div 100

\* TeeFittingMesh.create lines 238-244, ElbowFittingMesh.create lines 290-296,
\* UnionFittingMesh.create lines 340-359: the dimensions derived from the pipe
\* size; a union has no arm
FittingGeometry(kind, c) ==
    LET diameter == get_diameter(c)
        radius == diameter \div 2
    IN  [radius |-> radius,
         wall_thickness |-> get_wall_thickness(c),
         inner_radius |-> radius - get_wall_thickness(c),
         socket_outer_radius |->
            IF kind = "union" THEN (radius * 13) \div 10 ELSE (radius * 125) \div 100,
         socket_length |->
            IF kind = "union" THEN (diameter * 8) \div 10 ELSE (diameter * 6) \div 10,
         arm_core_length |-> IF kind = "union" THEN 0 ELSE (diameter * 8) \div 10]

\* a fitting factory called for a pipe size of a standard: the dimensions it
\* derives
fitting_create ==
    /\ method = "none"
    /\ \E pipe_standard \in PipeStandards :
         \E pipe_size \in get_pipe_sizes(pipe_standard) :
           \E kind \in SocketFittings :
             call' = [op |-> "Fitting.create", kind |-> kind,
                      pipe_standard |-> pipe_standard, pipe_size |-> pipe_size,
                      geometry |-> FittingGeometry(kind, [pipe_size |-> pipe_size])]
    /\ method' = "fitting"
    /\ UNCHANGED <<cfg, objects, collections, pc, outcome, runs, prior, edited,
                   sameCfg, solids, built>>

\* ReservoirMesh.create, line 119, for the schema's default of 100 litres:
\* radius = (volume_m3 / (3 pi)) ^ (1/3)
ReservoirRadius == 21974

\* ReservoirMesh.create, line 120: height = 1.5 * (2 * radius)
ReservoirHeight == 3 * ReservoirRadius

\* _generate_reservoir_system, lines 264-269: where the reservoir stands
reservoir_loc(layout, dimensions) ==
    IF layout.layout_type = "CIRCULAR"
    THEN Point(0, 0 - (layout.circle_radius * 15) \div 10, 0)
    ELSE Point(((layout.columns - 1) * layout.spacing_x) \div 2,
               dimensions.manifold_y_out - (layout.spacing_y * 15) \div 10, 0)

\* _generate_reservoir_system(context, generators, collections, dimensions):
\* the reservoir is created and linked to the Pots collection, the pump is
\* created and linked to Pumps, the bulkhead is created in the host's active
\* collection, and line 285 then reads fittings_collection, a name the method
\* never binds (line 259 unpacks the collections without it): NameError. The
\* pipes, the sensors and the probe holder of lines 287-324 are never reached.
generate_reservoir_system(layout, dimensions) ==
    LET loc == reservoir_loc(layout, dimensions)
        res_loc == [loc EXCEPT !.z = ReservoirHeight \div 2]
        pump_loc == [loc EXCEPT !.z = @ - ReservoirHeight \div 2 + 10000]
        bulkhead_loc == [loc EXCEPT !.x = @ + (ReservoirRadius * 7) \div 10,
                                    !.z = @ - ReservoirHeight \div 4]
    IN  [parts |-> << Part(<<"Main_Reservoir">>, "reservoir", "Pots",
                           res_loc, res_loc, NoRotation),
                      Part(<<"Main_Pump">>, "pump", "Pumps",
                           pump_loc, pump_loc, NoRotation),
                      Part(<<"Pump_Bulkhead">>, "bulkhead", HostCollection,
                           bulkhead_loc, bulkhead_loc, Euler(0, 90, 0, 1)) >>,
         raised |-> "NameError"]

\* execute, lines 604-605: the reservoir system, when enable_reservoir is set
generate_reservoir ==
    /\ method = "none"
    /\ cfg.enable_reservoir
    /\ LET b == generate_reservoir_system(cfg, Dimensions(cfg))
       IN  /\ objects' = Register(objects, b.parts, runs)
           /\ built' = [raised |-> b.raised, pot_objects |-> << >>]
    /\ method' = "reservoir"
    /\ UNCHANGED <<cfg, collections, pc, outcome, runs, prior, edited, sameCfg,
                   solids, call>>

\* the names the operator gives that contain "valve", "pump", "sensor" or
\* "meter" in lower case, the test of line 496
ComplexNames ==
    {"Valve_In", "Pipe_to_valve_in", "Pipe_from_valve_in", "Main_Pump",
     "Pump_Bulkhead", "Water_Level_High", "Water_Level_Low"}

\* _finalize_system, lines 486-497: the objects to join, every object of the
\* Pipes collection and the objects of the Fittings collection whose name
\* passes the test
rdwc_objects(objs) ==
    {o \in objs :
        \/ o.coll = "Pipes"
        \/ o.coll = "Fittings" /\ o.name.base[1] \notin ComplexNames}

\* bpy.ops.mesh.remove_doubles(threshold): the vertices left, a vertex within
\* the threshold of one already kept being merged into it
RECURSIVE remove_doubles(_, _, _)
remove_doubles(kept, verts, threshold) ==
    IF verts = << >> THEN kept
    ELSE IF \E i \in DOMAIN kept : Abs(Head(verts) - kept[i]) <= threshold
         THEN remove_doubles(kept, Tail(verts), threshold)
         ELSE remove_doubles(Append(kept, Head(verts)), Tail(verts), threshold)

\* the finalization without the weld
finalize_system_unwelded(objs, active, verts, optimize_model, born) ==
    IF rdwc_objects(objs) = {}
    THEN [objects |-> objs, verts |-> verts]
    ELSE LET rest == objs \ rdwc_objects(objs)
             final_system ==
                Solid(FreshName(<<"RDWC_Piping_System">>, rest), "system",
                      "System", born, active.loc, active.loc, NoRotation)
                  @@ [outlets |-> 0]
         IN  [objects |-> rest \cup {final_system}, verts |-> verts]

\* _finalize_system(context, collections): the objects to join are joined into
\* the active one of them, which is renamed and linked to the System collection;
\* with optimize_model the vertices of the joined mesh within 0.001 m, 100
\* units, of each other are merged. verts are the positions along a line of the
\* vertices the join has brought together.
finalize_system(objs, active, verts, optimize_model, born) ==
    IF rdwc_objects(objs) = {}
    THEN [objects |-> objs, verts |-> verts]
    ELSE LET rest == objs \ rdwc_objects(objs)
             final_system ==
                Solid(FreshName(<<"RDWC_Piping_System">>, rest), "system",
                      "System", born, active.loc, active.loc, NoRotation)
                  @@ [outlets |-> 0]
         IN  [objects |-> rest \cup {final_system},
              verts |-> IF optimize_model
                        THEN remove_doubles(<< >>, verts, 100)
                        ELSE verts]

\* two vertices of the joined mesh, 0.5 mm and 1.5 mm apart
ProbeVerts == {<<0, 50>>, <<0, 150>>}

\* execute, lines 625-627: the finalization of a generated layout, when
\* create_connections is set; selected_objects[0] is any of the objects joined
finalize ==
    /\ method \in {"grid", "linear", "circular"}
    /\ \E create_connections \in BOOLEAN : \E optimize_model \in BOOLEAN :
         \E verts \in ProbeVerts : \E active \in rdwc_objects(objects) :
           LET f == IF create_connections
                    THEN finalize_system(objects, active, verts, optimize_model, runs)
                    ELSE [objects |-> objects, verts |-> verts]
           IN  /\ objects' = f.objects
               /\ call' = [op |-> "_finalize_system",
                           create_connections |-> create_connections,
                           optimize_model |-> optimize_model,
                           before |-> objects,
                           verts_before |-> verts, verts |-> f.verts]
    /\ method' = "finalized"
    /\ UNCHANGED <<cfg, collections, pc, outcome, runs, prior, edited, sameCfg,
                   solids, built>>

\* str(i) of a digit
DigitChar(i) ==
    CASE i = 0 -> "0" [] i = 1 -> "1" [] i = 2 -> "2" [] i = 3 -> "3"
      [] i = 4 -> "4" [] i = 5 -> "5" [] i = 6 -> "6" [] i = 7 -> "7"
      [] i = 8 -> "8" [] i = 9 -> "9"

\* str(i): the decimal digits of a natural number
RECURSIVE Digits(_)
Digits(i) ==
    IF i < 10 THEN <<DigitChar(i)>> ELSE Append(Digits(i \div 10), DigitChar(i % 10))

\* the indices of a name written one after the other with nothing between
RECURSIVE Format_unseparated(_)
Format_unseparated(name) ==
    IF Len(name) = 1 THEN name
    ELSE Format_unseparated(Front(name)) \o Digits(name[Len(name)])

\* the f-strings of the operator, f"Pot_{r}_{c}" and the like: the text of a
\* name, its prefix followed by "_" and the decimal digits of each index
RECURSIVE Format(_)
Format(name) ==
    IF Len(name) = 1 THEN name
    ELSE Format(Front(name)) \o <<"_">> \o Digits(name[Len(name)])

\* _generate_aeration_system, lines 350-368: the names of the air stones of a
\* pot, f"Air_Stone_{pot_obj.name}" for one stone per pot and
\* f"Air_Stone_{pot_obj.name}_{i}" for more
AirStoneNames(pot_name, num_stones) ==
    IF num_stones = 1
    THEN << <<"Air_Stone", "_">> \o pot_name >>
    ELSE [i \in 1..num_stones |->
            <<"Air_Stone", "_">> \o pot_name \o <<"_">> \o Digits(i - 1)]

\* line 351: the loop over the pots, from pot j on
AllAirStoneNames(j, pot_names, num_stones) ==
    Flatten([i \in j..Len(pot_names) |-> AirStoneNames(pot_names[i], num_stones)],
            j, Len(pot_names))

\* _generate_aeration_system, lines 332-368: the names it asks for, none when
\* air_stones_per_pot is 0
aeration_names(pot_names, air_stones_per_pot) ==
    IF air_stones_per_pot = 0 THEN << >>
    ELSE << <<"Air_Pump">> >> \o AllAirStoneNames(1, pot_names, air_stones_per_pot)

\* the names one run asks for: those of the layout method of lines 591-601 and
\* those of the aeration system for the pots it returns
component_names(layout, air_stones_per_pot) ==
    LET b == CASE layout.layout_type = "GRID" ->
                    generate_grid_manifold(layout, Dimensions(layout))
               [] layout.layout_type = "LINEAR" ->
                    generate_grid_manifold([layout EXCEPT !.rows = 1],
                                           Dimensions(layout))
               [] layout.layout_type = "CIRCULAR" ->
                    generate_circular_layout(layout, Dimensions(layout))
               [] OTHER -> [parts |-> << >>, pot_objects |-> << >>]
    IN  [i \in DOMAIN b.parts |-> Format(b.parts[i].name)]
        \o aeration_names([j \in DOMAIN b.pot_objects |->
                              Format(b.pot_objects[j].name)],
                          air_stones_per_pot)

\* rows and columns taken from the schema's range of 1 to 20, with indices of
\* one and of two digits
NameCounts == {2, 11, 20}

\* HydroponicsComponentProperties.air_stones_per_pot, from its range of 0 to 4
AirStoneCounts == {0, 1, 2}

\* the names of one run, for a layout of many rows and columns
name_components ==
    /\ method = "none"
    /\ cfg = DefaultConfig
    /\ \E layout_type \in LayoutTypes : \E rows \in NameCounts :
         \E columns \in NameCounts : \E use_unions \in BOOLEAN :
           \E add_drain_valves \in BOOLEAN :
             \E air_stones_per_pot \in AirStoneCounts :
               LET layout == [cfg EXCEPT !.layout_type = layout_type,
                                         !.rows = rows, !.columns = columns,
                                         !.use_unions = use_unions,
                                         !.add_drain_valves = add_drain_valves]
               IN  call' = [op |-> "names", layout |-> layout,
                            air_stones_per_pot |-> air_stones_per_pot,
                            names |-> component_names(layout, air_stones_per_pot)]
    /\ method' = "names"
    /\ UNCHANGED <<cfg, objects, collections, pc, outcome, runs, prior, edited,
                   sameCfg, solids, built>>

\* BalanceTankMesh.create, lines 169-170: radius = (volume_m3 / (1.5 pi)) ^ (1/3)
\* for the balance volume of 1.5 times the pot volume (operators.py line 391),
\* by pot volume in litres, rounded to 0.01 mm
BalanceRadius(pot_volume) ==
    CASE pot_volume = 0 -> 0
      [] pot_volume = 10 -> 14710
      [] pot_volume = 19 -> 18219
      [] pot_volume = 25 -> 19965
      [] pot_volume = 30 -> 21216

\* BalanceTankMesh.create, line 171: height = 0.75 * (2 * radius)
BalanceHeight(pot_volume) == (3 * BalanceRadius(pot_volume)) \div 2

\* _generate_balance_system, lines 384-388: where the balance tank stands
balance_loc(layout, dimensions) ==
    IF layout.layout_type = "CIRCULAR"
    THEN Point(0, 0, 0)
    ELSE Point(((layout.columns - 1) * layout.spacing_x) \div 2,
               dimensions.manifold_y_out - (layout.spacing_y * 75) \div 100, 0)

\* lines 397-408: the pipe from the middle of the outlet manifold line to the
\* wall of the tank
BalancePipe(layout, dimensions) ==
    LET pipe_z == calculate_pipe_height(dimensions.pot_height, layout, 0)
        loc == balance_loc(layout, dimensions)
        manifold_center == Point(((layout.columns - 1) * layout.spacing_x) \div 2,
                                 dimensions.manifold_y_out, pipe_z)
        balance_in_point == Point(loc.x, loc.y + BalanceRadius(dimensions.pot_volume),
                                  loc.z + pipe_z)
    IN  PipeMesh_create(<<"Pipe_To_Balance">>, manifold_center, balance_in_point)

\* the balance system with the pipe in every layout that is not circular
generate_balance_system_rows(layout, dimensions) ==
    LET loc == balance_loc(layout, dimensions)
        tank_loc == [loc EXCEPT !.z = BalanceHeight(dimensions.pot_volume) \div 2]
    IN  << Part(<<"Balance_Tank">>, "balance_tank", "Pots", tank_loc, tank_loc,
                NoRotation) >>
        \o (IF layout.layout_type # "CIRCULAR"
            THEN BalancePipe(layout, dimensions) ELSE << >>)

\* _generate_balance_system(context, generators, collections, dimensions),
\* lines 372-409: the tank, linked to the Pots collection, and for a GRID
\* layout one pipe to it
generate_balance_system(layout, dimensions) ==
    LET loc == balance_loc(layout, dimensions)
        tank_loc == [loc EXCEPT !.z = BalanceHeight(dimensions.pot_volume) \div 2]
    IN  << Part(<<"Balance_Tank">>, "balance_tank", "Pots", tank_loc, tank_loc,
                NoRotation) >>
        \o (IF layout.layout_type = "GRID"
            THEN BalancePipe(layout, dimensions) ELSE << >>)

\* execute, lines 607-608: the balance system, after the layout
generate_balance ==
    /\ method \in {"grid", "linear", "circular", "skipped"}
    /\ LET parts == generate_balance_system(cfg, Dimensions(cfg))
       IN  /\ objects' = Register(objects, parts, runs)
           /\ call' = [op |-> "_generate_balance_system", parts |-> parts]
    /\ method' = "balance"
    /\ UNCHANGED <<cfg, collections, pc, outcome, runs, prior, edited, sameCfg,
                   solids, built>>

\* where an air stone sits: ring away from the pot centre in the direction at
\* k/n of a turn, that is centre + (ring cos(2 pi k/n), ring sin(2 pi k/n)), at
\* height z
StoneLoc(centre, ring, k, n, z) ==
    [centre |-> centre, ring |-> ring, k |-> k, n |-> n, z |-> z]

\* the centre of a pot of the pot_objects list: (x, y) of lines 167 and 233
PotCentre(pot) ==
    IF "pos" \in DOMAIN pot THEN pot.pos ELSE Point(pot.x, pot.y, 0)

\* _generate_aeration_system, lines 350-366, one turn of the loop: the stones
\* of one pot, linked to the Aeration collection
PotStones(pot, num_stones) ==
    IF num_stones = 1
    THEN << Part(<<"Air_Stone">> \o pot.name, "air_stone", "Aeration",
                 StoneLoc(PotCentre(pot), 0, 0, 1, (pot.height * 15) \div 100),
                 PotCentre(pot), NoRotation) >>
    ELSE [i \in 1..num_stones |->
             Part(<<"Air_Stone">> \o pot.name \o <<i - 1>>, "air_stone", "Aeration",
                  StoneLoc(PotCentre(pot), pot.radius \div 2, i - 1, num_stones,
                           (pot.height * 15) \div 100),
                  PotCentre(pot), NoRotation)]

\* _generate_aeration_system(context, pot_objects, reservoir_info, collections),
\* lines 328-368: nothing when air_stones_per_pot is 0, else the air pump and
\* the stones of every pot. enable_aeration is not read. reservoir_info is None:
\* the pump stands at (0, -2, 0.5)
generate_aeration_system(enable_aeration, air_stones_per_pot, pot_objects) ==
    IF air_stones_per_pot = 0 THEN << >>
    ELSE << Part(<<"Air_Pump">>, "air_pump", "Aeration",
                 Point(0, -200000, 50000), Point(0, -200000, 50000), NoRotation) >>
         \o Flatten([j \in DOMAIN pot_objects |->
                        PotStones(pot_objects[j], air_stones_per_pot)],
                    1, Len(pot_objects))

\* execute, lines 610-611: the aeration system for the pots of the layout
generate_aeration ==
    /\ method \in {"grid", "linear", "circular"}
    /\ \E enable_aeration \in BOOLEAN : \E air_stones_per_pot \in AirStoneCounts :
         /\ objects' = Register(objects,
                                generate_aeration_system(enable_aeration,
                                    air_stones_per_pot, built.pot_objects), runs)
         /\ call' = [op |-> "_generate_aeration_system",
                     enable_aeration |-> enable_aeration,
                     air_stones_per_pot |-> air_stones_per_pot]
    /\ method' = "aeration"
    /\ UNCHANGED <<cfg, collections, pc, outcome, runs, prior, edited, sameCfg,
                   solids, built>>

\* _generate_lighting, lines 443-444: the side of a panel, 0.6 m
panel_width == 60000

\* HydroponicsLightingProperties.light_height, its default of 0.6 m
light_height == 60000

\* the bounding boxes handed to _generate_lighting: one corner, and the widths
\* and depths of the footprint
BoundsMin == Point(-15000, -15000, 0)

SystemWidths == {30000, 60000, 90000, 120000}

SystemDepths == {30000, 120000}

SystemTop == 40000

\* _generate_lighting, lines 447-448: max(1, int(extent / panel_width) + 1)
panels_along(extent) ==
    IF extent \div panel_width + 1 > 1 THEN extent \div panel_width + 1 ELSE 1

\* _generate_lighting, lines 451-452
spacing_along(extent) ==
    IF panels_along(extent) > 1 THEN extent \div panels_along(extent) ELSE 0

\* _generate_lighting, lines 431-432 and 454-475: no panel when lighting is
\* disabled, else panel number i * panels_y + j at
\* (start_x + i * spacing_x, start_y + j * spacing_y, light_z), linked to the
\* Lighting collection
LightPanels(enable_lighting, system_bounds_min, system_bounds_max) ==
    LET system_width == system_bounds_max.x - system_bounds_min.x
        system_depth == system_bounds_max.y - system_bounds_min.y
        panels_x  == panels_along(system_width)
        panels_y  == panels_along(system_depth)
        spacing_x == spacing_along(system_width)
        spacing_y == spacing_along(system_depth)
        light_z   == system_bounds_max.z + light_height
        start_x   == system_bounds_min.x + spacing_x \div 2
        start_y   == system_bounds_min.y + spacing_y \div 2
        loc(n)    == Point(start_x + ((n - 1) \div panels_y) * spacing_x,
                           start_y + ((n - 1) % panels_y) * spacing_y,
                           light_z)
    IN  IF ~ enable_lighting THEN << >>
        ELSE [n \in 1..(panels_x * panels_y) |->
                 Part(<<"LED_Panel", n - 1>>, "light_panel", "Lighting",
                      loc(n), loc(n), NoRotation)]

\* _generate_lighting on a bounding box of its own
generate_lighting ==
    /\ method = "none"
    /\ \E enable_lighting \in BOOLEAN : \E system_width \in SystemWidths :
         \E system_depth \in SystemDepths :
           LET system_bounds_max == Point(BoundsMin.x + system_width,
                                          BoundsMin.y + system_depth, SystemTop)
           IN  /\ objects' = Register(objects,
                                      LightPanels(enable_lighting, BoundsMin,
                                                  system_bounds_max), runs)
               /\ collections' = IF enable_lighting
                                 THEN create_collection(collections, "Lighting", runs)
                                 ELSE collections
               /\ call' = [op |-> "_generate_lighting",
                           enable_lighting |-> enable_lighting,
                           system_bounds_min |-> BoundsMin,
                           system_bounds_max |-> system_bounds_max]
    /\ method' = "lighting"
    /\ UNCHANGED <<cfg, pc, outcome, runs, prior, edited, sameCfg, solids, built>>

NextLayout ==
    generate_grid \/ generate_circular \/ generate_linear \/ generate_none
        \/ pipe_create \/ pot_create \/ vessel_create \/ fitting_create
        \/ generate_reservoir \/ finalize \/ name_components \/ generate_lighting
        \/ generate_aeration \/ generate_balance

SpecLayout == InitLayout /\ [][NextLayout]_vars

----------------------------------------------------------------------------
(* Claims about the layout methods, checked under SpecLayout *)

OfKind(kind) == {o \in objects : o.kind = kind}

\* the manifold pipes of the line at y that lie between the centres of the tees
\* of columns c-1 and c
LinePipes(y, c) ==
    {o \in OfKind("pipe") :
        /\ o.loc.y = y /\ o.tip.y = y /\ o.loc.x < o.tip.x
        /\ o.loc.x >= (c - 1) * cfg.spacing_x /\ o.tip.x <= c * cfg.spacing_x}

\* the unions of the line at y between the tees of columns c-1 and c
LineUnions(y, c) ==
    {o \in OfKind("union") :
        /\ o.loc.y = y
        /\ o.loc.x > (c - 1) * cfg.spacing_x /\ o.loc.x < c * cfg.spacing_x}

\* the sockets of a tee reach from arm_core_length to tee_arm_total_length
\* from its centre
InSocket(x, centre) ==
    /\ Abs(x - centre) >= (get_diameter(cfg) * 8) \div 10
    /\ Abs(x - centre) <= Dimensions(cfg).tee_arm_total_length

\* columns c-1 and c are joined on the line at y: one pipe, or with unions two
\* pipes and a union, from inside a socket of the one tee to inside a socket of
\* the other
Joined(y, c) ==
    /\ Cardinality(LinePipes(y, c)) = IF cfg.use_unions THEN 2 ELSE 1
    /\ Cardinality(LineUnions(y, c)) = IF cfg.use_unions THEN 1 ELSE 0
    /\ \E p \in LinePipes(y, c) : InSocket(p.loc.x, (c - 1) * cfg.spacing_x)
    /\ \E p \in LinePipes(y, c) : InSocket(p.tip.x, c * cfg.spacing_x)

TeesAt(x, y) == {o \in OfKind("tee") : o.loc.x = x /\ o.loc.y = y}

\* C7: a GRID layout of R rows and C columns has exactly R*C pots, one per
\* cell, exactly C inlet tees and C outlet tees, one pair per column, and every
\* two consecutive columns are joined on the inlet line and on the outlet line
C7_GridCounts ==
    method = "grid" =>
        LET R == cfg.rows
            C == cfg.columns
            y_in == Dimensions(cfg).manifold_y_in
            y_out == Dimensions(cfg).manifold_y_out
        IN  /\ Cardinality(OfKind("pot")) = R * C
            /\ Len(built.pot_objects) = R * C
            /\ \A r \in 0..(R - 1) : \A c \in 0..(C - 1) :
                 Cardinality({o \in OfKind("pot") :
                     /\ o.loc.x = c * cfg.spacing_x
                     /\ o.loc.y = r * cfg.spacing_y}) = 1
            /\ Cardinality({o \in OfKind("tee") : o.loc.y = y_in}) = C
            /\ Cardinality({o \in OfKind("tee") : o.loc.y = y_out}) = C
            /\ Cardinality(OfKind("tee")) = 2 * C
            /\ \A c \in 0..(C - 1) :
                 /\ Cardinality(TeesAt(c * cfg.spacing_x, y_in)) = 1
                 /\ Cardinality(TeesAt(c * cfg.spacing_x, y_out)) = 1
            /\ \A c \in 1..(C - 1) : Joined(y_in, c) /\ Joined(y_out, c)
            /\ \A y \in {y_in, y_out} :
                 Cardinality({o \in OfKind("pipe") : o.loc.y = y /\ o.tip.y = y})
                    = (C - 1) * (IF cfg.use_unions THEN 2 ELSE 1)

\* a 2 by 2 grid is built: 4 pots, 2 inlet tees, 2 outlet tees, column 0 joined
\* to column 1 on both lines
C7_Witness ==
    /\ method = "grid" /\ cfg.rows = 2 /\ cfg.columns = 2
    /\ Cardinality(OfKind("pot")) = 4
    /\ Cardinality({o \in OfKind("tee") : o.loc.y = Dimensions(cfg).manifold_y_in}) = 2
    /\ Cardinality({o \in OfKind("tee") : o.loc.y = Dimensions(cfg).manifold_y_out}) = 2
    /\ Joined(Dimensions(cfg).manifold_y_in, 1)
    /\ Joined(Dimensions(cfg).manifold_y_out, 1)

\* C8: a CIRCULAR layout with rows * columns = n has exactly n pots, pot i
\* centred at circle_radius * (cos, sin)(i * 2 pi / n): every pot is at distance
\* circle_radius from the origin and consecutive pots are 1/n of a turn apart
C8_CircularPositions ==
    method = "circular" =>
        LET n == cfg.rows * cfg.columns
        IN  /\ Cardinality(OfKind("pot")) = n
            /\ Len(built.pot_objects) = n
            /\ \A i \in 0..(n - 1) :
                 /\ built.pot_objects[i + 1].pos = Polar(cfg.circle_radius, i, n, 0)
                 /\ \E o \in OfKind("pot") :
                      /\ o.name = [base |-> <<"Pot_circular", i>>, dup |-> 0]
                      /\ o.loc = Polar(cfg.circle_radius, i, n,
                                       PotHeight(cfg.pot_volume) \div 2)
            /\ \A o \in OfKind("pot") :
                 o.loc.x = 0 /\ o.loc.y = 0 /\ o.loc.r = cfg.circle_radius
            /\ \A i \in 1..(n - 1) :
                 /\ built.pot_objects[i + 1].pos.n = n
                 /\ built.pot_objects[i + 1].pos.k - built.pot_objects[i].pos.k = 1

\* six pots stand on the circle of 1.5 m, a sixth of a turn apart
C8_Witness ==
    /\ method = "circular" /\ cfg.rows * cfg.columns = 6
    /\ cfg.circle_radius = 150000
    /\ Cardinality({o \in OfKind("pot") : o.loc.r = 150000 /\ o.loc.n = 6}) = 6

\* C9: a CIRCULAR layout with n pots has exactly one central manifold block,
\* with n outlets, and for each pot exactly one elbow, at the pot's rim on the
\* pot's ray and rotated about Z by the pot's polar angle, and exactly one
\* radial pipe, from the centre to that elbow
C9_CircularManifold ==
    method = "circular" =>
        LET n == cfg.rows * cfg.columns
            pipe_z == calculate_pipe_height(PotHeight(cfg.pot_volume), cfg, 0)
            ElbowsOf(p) ==
                {e \in OfKind("elbow") :
                    e.loc = [p.loc EXCEPT !.r = @ + PotRadius(cfg.pot_volume),
                                          !.z = pipe_z]}
        IN  /\ Cardinality(OfKind("manifold")) = 1
            /\ \A m \in OfKind("manifold") :
                 m.outlets = n /\ m.loc = Point(0, 0, pipe_z) /\ m.coll = "Fittings"
            /\ Cardinality(OfKind("elbow")) = n
            /\ Cardinality(OfKind("pipe")) = n
            /\ \A p \in OfKind("pot") :
                 /\ Cardinality(ElbowsOf(p)) = 1
                 /\ \A e \in ElbowsOf(p) :
                      /\ e.rot[1] = 0 /\ e.rot[2] = 0
                      /\ (e.rot[3] * p.loc.n - p.loc.k * e.rot[4])
                            % (e.rot[4] * p.loc.n) = 0
                      /\ Cardinality({q \in OfKind("pipe") :
                            q.loc = Point(0, 0, pipe_z) /\ q.tip = e.loc}) = 1

\* six pots are built round a manifold block of six outlets, and the elbow of a
\* pot in the lower half plane is rotated by a negative angle
C9_Witness ==
    /\ method = "circular" /\ cfg.rows * cfg.columns = 6
    /\ \E m \in OfKind("manifold") : m.outlets = 6
    /\ Cardinality(OfKind("elbow")) = 6
    /\ \E e \in OfKind("elbow") : e.rot[3] < 0

\* UnionFittingMesh.create: half the union's total length, from its centre to
\* the open face of a socket
UnionOffset(c) == (get_diameter(c) * 8) \div 10

\* the pipes ps connect two fittings D apart with offsets d1 and d2 as C10 says
Connected(ps, D, d1, d2) ==
    IF D > d1 + d2
    THEN /\ Cardinality(ps) = 1
         /\ \A p \in ps : p.tip.x - p.loc.x = D - d1 - d2
    ELSE ps = {}

\* C10 as stated: two fittings with connection offsets d1 and d2, their centres
\* D apart, are joined by exactly one pipe of length D - d1 - d2 if D > d1 + d2
\* and by no pipe otherwise; stated of a level manifold, tee to tee and tee to
\* union
C10_PipeBetweenFittings ==
    (method \in {"grid", "linear"} /\ cfg.pipe_slope = 0) =>
        \A c \in 1..(cfg.columns - 1) :
          \A y \in {Dimensions(cfg).manifold_y_in, Dimensions(cfg).manifold_y_out} :
            LET L == Dimensions(cfg).tee_arm_total_length
            IN  IF ~ cfg.use_unions
                THEN Connected(LinePipes(y, c), cfg.spacing_x, L, L)
                ELSE \A u \in LineUnions(y, c) :
                       /\ Connected({p \in LinePipes(y, c) : p.tip.x <= u.loc.x},
                                    u.loc.x - (c - 1) * cfg.spacing_x,
                                    L, UnionOffset(cfg))
                       /\ Connected({p \in LinePipes(y, c) : p.loc.x >= u.loc.x},
                                    c * cfg.spacing_x - u.loc.x,
                                    UnionOffset(cfg), L)

\* C10 amended: a manifold pipe between two tees D apart with connection offset
\* d starts and ends pipe_insertion_depth i inside the tees' sockets, so that
\* along the line it spans D - 2d + 2i; with unions each half runs between the
\* inside of a tee's socket and 0.02 m from the union's centre. PipeMesh.create
\* returns no pipe exactly when its end points are less than 0.1 mm apart, and
\* otherwise one pipe from the one end point to the other
C10_PipeSeatedInSockets ==
    /\ method \in {"grid", "linear"} =>
         \A c \in 1..(cfg.columns - 1) :
           \A y \in {Dimensions(cfg).manifold_y_in, Dimensions(cfg).manifold_y_out} :
             LET L == Dimensions(cfg).tee_arm_total_length
                 i == Dimensions(cfg).pipe_insertion_depth
                 a == (c - 1) * cfg.spacing_x + L - i
                 b == c * cfg.spacing_x - L + i
                 mid == (a + b) \div 2
             IN  IF ~ cfg.use_unions
                 THEN /\ Cardinality(LinePipes(y, c)) = 1
                      /\ \A p \in LinePipes(y, c) :
                           /\ p.loc.x = a /\ p.tip.x = b
                           /\ p.tip.x - p.loc.x = cfg.spacing_x - 2 * L + 2 * i
                 ELSE /\ Cardinality(LinePipes(y, c)) = 2
                      /\ \E p \in LinePipes(y, c) :
                           p.loc.x = a /\ p.tip.x = mid - 2000
                      /\ \E p \in LinePipes(y, c) :
                           p.loc.x = mid + 2000 /\ p.tip.x = b
    /\ method = "pipe" =>
         LET dx == call.end_loc.x - call.start_loc.x
             dy == call.end_loc.y - call.start_loc.y
             dz == call.end_loc.z - call.start_loc.z
         IN  /\ (call.returned = << >>) <=> (dx * dx + dy * dy + dz * dz < 100)
             /\ call.returned # << >> =>
                  /\ Len(call.returned) = 1
                  /\ call.returned[1].loc = call.start_loc
                  /\ call.returned[1].tip = call.end_loc
                  /\ Cardinality(OfKind("pipe")) = 1

\* two tees 0.2 m apart with offsets of 0.07 m each are joined by one pipe that
\* spans 0.084 m and not 0.06 m
C10_Witness ==
    /\ method = "grid" /\ ~ cfg.use_unions /\ cfg.pipe_slope = 0
    /\ cfg.columns >= 2 /\ cfg.spacing_x = 20000 /\ cfg.pipe_size = 50
    /\ \E p \in LinePipes(Dimensions(cfg).manifold_y_in, 1) :
         p.tip.x - p.loc.x = 8400

\* TeeFittingMesh.create, lines 243-257: from a tee's centre to the open face of
\* a socket, arm_core_length + socket_length
TeeOffset(c) == (get_diameter(c) * 8) \div 10 + (get_diameter(c) * 6) \div 10

\* the pipes of column c that run along Y, to and from the pots
ColumnPipes(c) ==
    {o \in OfKind("pipe") :
        o.loc.x = c * cfg.spacing_x /\ o.tip.x = c * cfg.spacing_x}

CoincidentCall ==
    LET dx == call.end_loc.x - call.start_loc.x
        dy == call.end_loc.y - call.start_loc.y
        dz == call.end_loc.z - call.start_loc.z
    IN  dx * dx + dy * dy + dz * dz < 100

Enclosed(d) ==
    <<d.pi_radius3[1] * d.height_by_radius[1], d.pi_radius3[2] * d.height_by_radius[2]>>

\* C13: for every volume v > 0 and each vessel class the radius and the height
\* derived are positive and pi * radius^2 * height is v
C13_VolumeRoundTrip ==
    method = "vessel" =>
        /\ call.dims.pi_radius3[1] > 0 /\ call.dims.pi_radius3[2] > 0
        /\ call.dims.height_by_radius[1] > 0 /\ call.dims.height_by_radius[2] > 0
        /\ Enclosed(call.dims)[1] = call.volume * Enclosed(call.dims)[2]

\* a reservoir of 100 litres is derived: pi * radius^3 is 100 / 3 litres and the
\* height is 3 radii
C13_Witness ==
    /\ method = "vessel" /\ call.class = "reservoir" /\ call.volume = 1000
    /\ call.dims.pi_radius3 = <<1000, 3>>
    /\ call.dims.height_by_radius = <<30, 10>>

\* C14: for every selectable pipe size and every fitting kind with sockets the
\* inner radius, radius - 0.15 * diameter, is less than the outer radius and the
\* socket's outer radius is greater than the outer radius
C14_RadiiOrdered ==
    method = "fitting" =>
        LET g == call.geometry
        IN  /\ g.radius = (call.pipe_size * 100) \div 2
            /\ g.inner_radius = g.radius - (call.pipe_size * 100 * 15) \div 100
            /\ g.inner_radius > 0
            /\ g.inner_radius < g.radius
            /\ g.socket_outer_radius > g.radius

\* the smallest pipe, 15 mm, in a union: radii 5.25 mm, 7.5 mm and 9.75 mm
C14_Witness ==
    /\ method = "fitting" /\ call.kind = "union" /\ call.pipe_size = 15
    /\ call.geometry.inner_radius = 525
    /\ call.geometry.radius = 750
    /\ call.geometry.socket_outer_radius = 975

\* C15: with enable_reservoir set the reservoir system is generated whole: the
\* reservoir, its pump, the bulkhead fitting, the probe holder and the water
\* level sensors, each linked to its collection, and the method returns
C15_ReservoirSubtree ==
    method = "reservoir" =>
        /\ built.raised = "none"
        /\ \E o \in OfKind("reservoir") : o.coll \in SetupCollections
        /\ \E o \in OfKind("pump") : o.coll = "Pumps"
        /\ \E o \in OfKind("bulkhead") : o.coll = "Fittings"
        /\ \E o \in OfKind("probe_holder") : o.coll = "Sensors"

\* C16: with use_unions every manifold segment between consecutive columns, on
\* the inlet and on the outlet line, is exactly one union at the midpoint of the
\* segment and exactly two pipes, one on each side of the union; without
\* use_unions it is exactly one continuous pipe and there is no union
C16_UnionsSplitSegments ==
    method \in {"grid", "linear"} =>
        /\ Cardinality(OfKind("union"))
              = IF cfg.use_unions THEN 2 * (cfg.columns - 1) ELSE 0
        /\ \A c \in 1..(cfg.columns - 1) :
             \A y \in {Dimensions(cfg).manifold_y_in, Dimensions(cfg).manifold_y_out} :
               IF cfg.use_unions
               THEN /\ Cardinality(LineUnions(y, c)) = 1
                    /\ Cardinality(LinePipes(y, c)) = 2
                    /\ \A u \in LineUnions(y, c) :
                         /\ 2 * u.loc.x = (2 * c - 1) * cfg.spacing_x
                         /\ u.coll = "Fittings"
                         /\ Cardinality({p \in LinePipes(y, c) :
                                            p.tip.x < u.loc.x}) = 1
                         /\ Cardinality({p \in LinePipes(y, c) :
                                            p.loc.x > u.loc.x}) = 1
               ELSE /\ LineUnions(y, c) = {}
                    /\ Cardinality(LinePipes(y, c)) = 1
                    /\ \A p \in LinePipes(y, c) :
                         /\ 2 * p.loc.x < (2 * c - 1) * cfg.spacing_x
                         /\ 2 * p.tip.x > (2 * c - 1) * cfg.spacing_x

\* three columns with unions: four unions, the one of the first inlet segment at
\* half the column spacing with a pipe on each side
C16_Witness ==
    /\ method = "grid" /\ cfg.use_unions /\ cfg.columns = 3
    /\ Cardinality(OfKind("union")) = 4
    /\ \E u \in LineUnions(Dimensions(cfg).manifold_y_in, 1) :
         /\ 2 * u.loc.x = cfg.spacing_x
         /\ \E p \in OfKind("pipe") : p.loc.y = u.loc.y /\ p.tip.x = u.loc.x - 2000
         /\ \E p \in OfKind("pipe") : p.loc.y = u.loc.y /\ p.loc.x = u.loc.x + 2000

----------------------------------------------------------------------------
(* Claims about the finalization, checked under SpecLayout *)

SimpleKinds == {"pipe", "tee", "union", "elbow", "manifold"}

\* C17: with create_connections every pipe and every simple fitting is merged
\* into exactly one solid, linked to the System collection, no pipe is left in
\* the Pipes collection and the pots and the valves stay separate solids;
\* without create_connections nothing is merged and System stays empty
C17_FinalizeMerges ==
    method = "finalized" =>
        IF call.create_connections
        THEN /\ Cardinality(OfKind("system")) = 1
             /\ \A o \in OfKind("system") :
                  /\ o.coll = "System"
                  /\ o.name = [base |-> <<"RDWC_Piping_System">>, dup |-> 0]
             /\ \A o \in objects : o.coll # "Pipes" /\ o.kind \notin SimpleKinds
             /\ objects \ OfKind("system")
                  = {o \in call.before : o.kind \notin SimpleKinds}
             /\ \A o \in call.before :
                  o.kind \in {"pot", "valve"} => o \in objects
        ELSE /\ objects = call.before
             /\ \A o \in objects : o.coll # "System"

\* C18: in a finalization with optimize_model two vertices of the merged mesh
\* within 1 mm of each other become one vertex, and two further apart stay two;
\* without optimize_model, or without finalization, no vertex is merged
C18_WeldWithinThreshold ==
    method = "finalized" =>
        IF call.create_connections /\ call.optimize_model
        THEN IF Abs(call.verts_before[2] - call.verts_before[1]) <= 100
             THEN Len(call.verts) = 1
             ELSE call.verts = call.verts_before
        ELSE call.verts = call.verts_before

\* two vertices 0.5 mm apart are welded into one
C18_Witness ==
    /\ method = "finalized" /\ call.create_connections /\ call.optimize_model
    /\ call.verts_before = <<0, 50>>
    /\ call.verts = <<0>>

\* C19: within one run the names given to the components are pairwise
\* distinct, for every layout type, every count of rows and columns and every
\* toggle combination: as many different names as components, and in a scene
\* built by a layout method no name got a suffix from the host
C19_NamesDistinct ==
    /\ method = "names" =>
         Cardinality({call.names[i] : i \in DOMAIN call.names}) = Len(call.names)
    /\ method \in {"grid", "linear", "circular"} =>
         /\ \A o \in objects : o.name.dup = 0
         /\ Cardinality({Format(o.name.base) : o \in objects}) = Cardinality(objects)

\* a grid of 20 rows and 20 columns with unions, valves and two air stones per
\* pot: Pot_1_11 and Pot_11_1 are both there
C19_Witness ==
    /\ method = "names"
    /\ call.layout.layout_type = "GRID"
    /\ call.layout.rows = 20 /\ call.layout.columns = 20
    /\ call.layout.use_unions /\ call.layout.add_drain_valves
    /\ call.air_stones_per_pot = 2
    /\ \E i \in DOMAIN call.names : call.names[i] = <<"Pot", "_", "1", "_", "1", "1">>
    /\ \E i \in DOMAIN call.names : call.names[i] = <<"Pot", "_", "1", "1", "_", "1">>


----------------------------------------------------------------------------
(* C20: lighting *)

CeilDiv(a, b) == (a + b - 1) \div b

LightingPanels == {o \in objects : o.coll = "Lighting"}

\* the panels sit symmetrically about the middle of the footprint, one constant
\* step apart along each axis
PanelsCentred ==
    LET lo == call.system_bounds_min
        hi == call.system_bounds_max
        xs == {o.loc.x : o \in LightingPanels}
        ys == {o.loc.y : o \in LightingPanels}
    IN  /\ \A x \in xs : (lo.x + hi.x) - x \in xs
        /\ \A y \in ys : (lo.y + hi.y) - y \in ys

\* C20: with lighting enabled _generate_lighting places
\* ceil(width / 0.6) x ceil(depth / 0.6) panels over the bounding box of the
\* system, centred over the footprint and all at light_height above its highest
\* point; with lighting disabled it places none.
C20_LightingTilesFootprint ==
    method = "lighting" =>
        IF call.enable_lighting
        THEN LET lo == call.system_bounds_min
                 hi == call.system_bounds_max
             IN  /\ Cardinality(LightingPanels)
                      = CeilDiv(hi.x - lo.x, panel_width)
                          * CeilDiv(hi.y - lo.y, panel_width)
                 /\ PanelsCentred
                 /\ \A o \in LightingPanels : o.loc.z = hi.z + light_height
        ELSE LightingPanels = {}


----------------------------------------------------------------------------
(* C22: aeration *)

\* the air stones of one pot
StonesOf(pot) == {o \in OfKind("air_stone") : o.loc.centre = PotCentre(pot)}

\* C22: the aeration system is generated exactly when aeration is enabled: then
\* there is one air pump and every pot has air_stones_per_pot stones, at the
\* pot centre when that is 1 and evenly on a circle of half the pot radius
\* otherwise; with enable_aeration off there is no air pump and no air stone.
C22_AerationWhenEnabled ==
    method = "aeration" =>
        IF call.enable_aeration
        THEN /\ Cardinality(OfKind("air_pump")) = 1
             /\ \A j \in DOMAIN built.pot_objects :
                  LET pot == built.pot_objects[j]
                      num == call.air_stones_per_pot
                  IN  /\ Cardinality(StonesOf(pot)) = num
                      /\ \A o \in StonesOf(pot) :
                           /\ o.loc.ring = (IF num = 1 THEN 0 ELSE pot.radius \div 2)
                           /\ o.loc.n = num
                      /\ Cardinality({o.loc.k : o \in StonesOf(pot)}) = num
        ELSE OfKind("air_pump") = {} /\ OfKind("air_stone") = {}

----------------------------------------------------------------------------
(* C23: the balance tank *)

\* the kinds of part that are fittings
FittingKinds == {"tee", "elbow", "union", "valve", "manifold", "bulkhead"}

BalanceParts == {call.parts[i] : i \in DOMAIN call.parts}

BalancePipes == {p \in BalanceParts : p.kind = "pipe"}

----------------------------------------------------------------------------
(* C24: the reservoir's connection *)

\* the midpoint of the inlet manifold line at pipe height, line 291
InletMidpoint ==
    Point(((cfg.columns - 1) * cfg.spacing_x) \div 2, Dimensions(cfg).manifold_y_in,
          calculate_pipe_height(PotHeight(cfg.pot_volume), cfg, 0))

\* C24: in a GRID and in a LINEAR layout with the reservoir enabled a chain of
\* pipes starts beside the bulkhead of the pump outlet and ends at the midpoint
\* of the inlet manifold line, ((columns-1)*spacing_x/2, manifold_y_in, pipe
\* height).
C24_PumpPipedToInletMidpoint ==
    (method = "reservoir" /\ cfg.layout_type \in {"GRID", "LINEAR"}) =>
        \E up \in OfKind("pipe") : \E across \in OfKind("pipe") :
            /\ \E b \in OfKind("bulkhead") :
                 up.loc = [b.loc EXCEPT !.x = @ + 5000]
            /\ across.loc = up.tip
            /\ across.tip = InletMidpoint

----------------------------------------------------------------------------
(* C25: drain valves *)

Named(base) == {o \in objects : o.name.base = base}

\* the Y interval a pipe covers
SpanY(p) ==
    [lo |-> IF p.loc.y < p.tip.y THEN p.loc.y ELSE p.tip.y,
     hi |-> IF p.loc.y < p.tip.y THEN p.tip.y ELSE p.loc.y]

\* two pipes along Y share more than an end point
OverlapY(p, q) == SpanY(p).lo < SpanY(q).hi /\ SpanY(q).lo < SpanY(p).hi

\* C25: with add_drain_valves every pot has exactly one drain valve on its
\* inlet run and the run is two pipes that do not overlap, one from the inlet
\* tee's socket ending on the upstream side of the valve and one from its
\* downstream side to the near edge of the pot; the outlet run is one direct
\* pipe. Without add_drain_valves the inlet run is one direct pipe and there is
\* no valve.
C25_ValveBetweenTwoPipes ==
    method \in {"grid", "linear"} =>
        \A j \in DOMAIN built.pot_objects :
            LET rc == Tail(built.pot_objects[j].name)
                valves == Named(<<"Valve_In">> \o rc)
                upstream == Named(<<"Pipe_to_valve_in">> \o rc)
                downstream == Named(<<"Pipe_from_valve_in">> \o rc)
                direct == Named(<<"Pot_Pipe_In">> \o rc)
            IN  /\ Cardinality(Named(<<"Pot_Pipe_Out">> \o rc)) = 1
                /\ IF cfg.add_drain_valves
                   THEN /\ Cardinality(valves) = 1
                        /\ Cardinality(upstream) = 1
                        /\ Cardinality(downstream) = 1
                        /\ direct = {}
                        /\ \A v \in valves : \A p \in upstream : \A q \in downstream :
                             /\ p.tip.y >= v.loc.y
                             /\ q.loc.y <= v.loc.y
                             /\ ~ OverlapY(p, q)
                   ELSE /\ OfKind("valve") = {}
                        /\ Cardinality(direct) = 1
                        /\ upstream = {} /\ downstream = {}

----------------------------------------------------------------------------
(* C26: the pipe height *)

\* the pipes of the pot runs are those along Y, the manifold pipes those along X
PotRunPipes == {p \in OfKind("pipe") : p.loc.x = p.tip.x}

ManifoldPipes == {p \in OfKind("pipe") : p.loc.x < p.tip.x}

\* the pipe height without slope: pipe_height_ratio percent of the pot height
BasePipeZ == (PotHeight(cfg.pot_volume) * PipeHeightRatio) \div 100

\* the original statement: every tee centre and every end of a manifold or pot
\* pipe of a GRID or LINEAR layout has the same Z, the fixed fraction of the
\* pot height, in every column
C26_OneSharedPlane ==
    method \in {"grid", "linear"} =>
        /\ \A t \in OfKind("tee") : t.loc.z = BasePipeZ
        /\ \A p \in PotRunPipes \cup ManifoldPipes :
             p.loc.z = BasePipeZ /\ p.tip.z = BasePipeZ

\* C26: in a GRID or LINEAR layout the two tees and the pot pipes of one column
\* share one Z; the column in the middle of the grid is at the fixed fraction
\* of the pot height; with pipe_slope 0 every column is at that height, and
\* with a positive pipe_slope the height rises from each column to the next, a
\* manifold pipe rising between the heights of the columns it joins.
C26_HeightPerColumn ==
    method \in {"grid", "linear"} =>
        /\ \A t \in OfKind("tee") : \A u \in OfKind("tee") :
             /\ t.loc.x = u.loc.x => t.loc.z = u.loc.z
             /\ t.loc.x < u.loc.x =>
                  IF cfg.pipe_slope = 0 THEN t.loc.z = u.loc.z
                  ELSE t.loc.z < u.loc.z
        /\ \A t \in OfKind("tee") :
             2 * t.loc.x = (cfg.columns - 1) * cfg.spacing_x => t.loc.z = BasePipeZ
        /\ cfg.pipe_slope = 0 => \A t \in OfKind("tee") : t.loc.z = BasePipeZ
        /\ \A p \in PotRunPipes : \A t \in OfKind("tee") :
             t.loc.x = p.loc.x => (p.loc.z = t.loc.z /\ p.tip.z = t.loc.z)
        /\ \A p \in ManifoldPipes :
             /\ p.loc.z <= p.tip.z
             /\ \E t \in OfKind("tee") : t.loc.x < p.loc.x /\ t.loc.z <= p.loc.z
             /\ \E t \in OfKind("tee") : t.loc.x > p.tip.x /\ t.loc.z >= p.tip.z

\* three columns on a slope of 1 degree: three different heights, the middle
\* one at the base height, and a manifold pipe that is not level
C26_Witness ==
    /\ method = "grid" /\ cfg.columns = 3 /\ cfg.pipe_slope = 1
    /\ Cardinality({t.loc.z : t \in OfKind("tee")}) = 3
    /\ \E t \in OfKind("tee") : t.loc.x = cfg.spacing_x /\ t.loc.z = BasePipeZ
    /\ \E p \in ManifoldPipes : p.loc.z < p.tip.z
    /\ \E p \in PotRunPipes : p.loc.z > BasePipeZ

----------------------------------------------------------------------------
(* C27: LINEAR as a single-row grid *)

\* what a scene shows of its solids: names, kinds, collections and positions
Placed(objs) ==
    {[name |-> o.name, kind |-> o.kind, coll |-> o.coll, loc |-> o.loc,
      tip |-> o.tip] : o \in objs}

\* the scene a GRID layout of one row and cfg.columns columns produces
SingleRowGrid ==
    LET grid == [cfg EXCEPT !.layout_type = "GRID", !.rows = 1]
    IN  Register({}, generate_grid_manifold(grid, Dimensions(grid)).parts, runs)

\* C27: a LINEAR layout of C columns produces, for every value of the rows
\* setting, exactly the components, names and positions of a GRID layout with
\* rows = 1 and columns = C.
C27_LinearIsSingleRowGrid ==
    method = "linear" => Placed(objects) = Placed(SingleRowGrid)

----------------------------------------------------------------------------
(* C28: the configuration record *)

----------------------------------------------------------------------------
(* C29: pipe ends at a tee *)

\* a point lies within the reach of the arms of tee t
AtTee(e, t) ==
    /\ e.z = t.loc.z
    /\ \/ e.y = t.loc.y /\ Abs(e.x - t.loc.x) <= Dimensions(cfg).tee_arm_total_length
       \/ e.x = t.loc.x /\ Abs(e.y - t.loc.y) <= Dimensions(cfg).tee_arm_total_length

\* the pipe ends that lie in tee t: which pipe, and where
PipeEndsAt(t) ==
    {[pipe |-> p.name, at |-> p.loc] : p \in {q \in OfKind("pipe") : AtTee(q.loc, t)}}
    \cup {[pipe |-> p.name, at |-> p.tip] : p \in {q \in OfKind("pipe") : AtTee(q.tip, t)}}

\* C29: in a GRID layout no two pipes start or end at the same point of a tee,
\* and no tee holds more pipe ends than its three sockets.
C29_OnePipePerSocket ==
    method = "grid" =>
        \A t \in OfKind("tee") :
            /\ \A a \in PipeEndsAt(t) : \A b \in PipeEndsAt(t) :
                 a.at = b.at => a.pipe = b.pipe
            /\ Cardinality(PipeEndsAt(t)) <= 3

----------------------------------------------------------------------------
(* C30: collections *)

\* the collection groups of the generator: those execute creates, and Lighting
GeneratorCollections == SetupCollections \cup {"Lighting"}

\* the methods of a run that have returned
ReturnedMethods ==
    {"grid", "linear", "circular", "balance", "aeration", "lighting", "finalized"}

=========================================================================
